---- MODULE Spec2Model ----
(***************************************************************************)
(* A model of daf_fmt_s3: the S3Storage backend (s3Storage.py), the        *)
(* RepositoryCfg formatter (fmtRepositoryCfg.py) and the MyTestObject      *)
(* formatter registered by tests/test_basics.py, over an object store      *)
(* that is a map  bucket name -> key -> stored bytes.                      *)
(*                                                                         *)
(* Python strings are sequences of one-character strings, so that          *)
(* urlparse, lstrip, endswith, rfind, slicing and the prefix filter of a   *)
(* listing are computed character by character.  Python values are records *)
(* tagged with their class in the field cls.                               *)
(***************************************************************************)
EXTENDS Integers, Sequences, FiniteSets, TLC

VARIABLES store, storage, last, writer, completed

vars == <<store, storage, last, writer, completed>>

(***************************************************************************)
(* Bounds of the model.                                                    *)
(***************************************************************************)
\* payloads of MyTestObject and mapper ids of RepositoryCfg are 1..MaxVal
MaxVal == 2

\* the number of callers that write concurrently
MaxWriters == 2

(***************************************************************************)
(* Python string helpers.                                                  *)
(***************************************************************************)
Min(a, b) == IF a <= b THEN a ELSE b

Max(a, b) == IF a >= b THEN a ELSE b

\* s[:i] for a Python slice bound i (negative i counts from the end)
SliceTo(s, i) ==
    IF i >= 0 THEN SubSeq(s, 1, Min(i, Len(s)))
    ELSE SubSeq(s, 1, Max(Len(s) + i, 0))

\* s[i:] for i >= 0
SliceFrom(s, i) == SubSeq(s, Min(i, Len(s)) + 1, Len(s))

\* s.startswith(p); also the Prefix filter of a listing request
startswith(s, p) == Len(p) <= Len(s) /\ SubSeq(s, 1, Len(p)) = p

\* s.endswith(c) for a single character c
endswith(s, c) == Len(s) > 0 /\ s[Len(s)] = c

\* s.find(c): 0-based index of the first c in s, or -1
find(s, c) ==
    IF \E i \in 1..Len(s) : s[i] = c
    THEN (CHOOSE i \in 1..Len(s) : s[i] = c /\ \A j \in 1..(i - 1) : s[j] # c) - 1
    ELSE -1

\* s.rfind(c): 0-based index of the last c in s, or -1
rfind(s, c) ==
    IF \E i \in 1..Len(s) : s[i] = c
    THEN (CHOOSE i \in 1..Len(s) : s[i] = c /\ \A j \in (i + 1)..Len(s) : s[j] # c) - 1
    ELSE -1

\* s.lstrip(c)
RECURSIVE lstrip(_, _)
lstrip(s, c) == IF Len(s) > 0 /\ s[1] = c THEN lstrip(Tail(s), c) ELSE s

UpperOf(c) == IF c = "s" THEN "S" ELSE IF c = "h" THEN "H" ELSE c

LowerOf(c) == IF c = "S" THEN "s" ELSE IF c = "H" THEN "h" ELSE c

upper(s) == [i \in 1..Len(s) |-> UpperOf(s[i])]

lower(s) == [i \in 1..Len(s) |-> LowerOf(s[i])]

Letters == {"s", "S", "h", "H", "b", "c", "f"}

Digits == {"0", "1", "2", "3"}

\* urllib.parse.scheme_chars
SchemeChars == Letters \cup Digits \cup {"+", "-", "."}

(***************************************************************************)
(* urllib.parse.urlparse, restricted to urls without '?', '#' and ';': the  *)
(* scheme is what precedes the first ':' when it is made of scheme         *)
(* characters, and is lower-cased; a rest that starts with '//' gives the   *)
(* netloc up to the next '/'.                                               *)
(***************************************************************************)
\* urllib.parse._splitnetloc(url, start): the netloc runs from start to the
\* next '/', the rest is what follows
_splitnetloc(url, start) ==
    LET at(delim) == [netloc |-> SubSeq(url, start + 1, delim), rest |-> SliceFrom(url, delim)]
        upto(d) == at(IF d < 0 THEN Len(url) ELSE start + d)
    IN upto(find(SliceFrom(url, start), "/"))

\* the scheme part of urlsplit: i = url.find(':')
splitscheme(url, i) ==
    IF i > 0 /\ \A j \in 1..i : url[j] \in SchemeChars
    THEN [scheme |-> lower(SliceTo(url, i)), url |-> SliceFrom(url, i + 1)]
    ELSE [scheme |-> <<>>, url |-> url]

urlparse(uri) ==
    LET withNetloc(sp, n) == [scheme |-> sp.scheme, netloc |-> n.netloc, path |-> n.rest]
        parsed(sp) ==
            IF SliceTo(sp.url, 2) = <<"/", "/">>
            THEN withNetloc(sp, _splitnetloc(sp.url, 2))
            ELSE [scheme |-> sp.scheme, netloc |-> <<>>, path |-> sp.url]
    IN parsed(splitscheme(uri, find(uri, ":")))

(***************************************************************************)
(* Names: buckets, uris, keys.                                             *)
(***************************************************************************)
BucketNames == {<<"b">>, <<"c">>}

s3 == <<"s", "3">>

Schemes == {s3, <<"S", "3">>, <<"h">>}

\* '<scheme>://<bucket>'
TwoSlashes(scheme, b) == scheme \o <<":", "/", "/">> \o b

\* '<scheme>:///<bucket>'
ThreeSlashes(scheme, b) == scheme \o <<":", "/", "/", "/">> \o b

URIs == {TwoSlashes(sc, b) : sc \in Schemes, b \in BucketNames}
          \cup {ThreeSlashes(sc, b) : sc \in Schemes, b \in BucketNames}

\* fmtRepositoryCfg.remoteCfgName = 'repositoryCfg.yaml'
remoteCfgName ==
    <<"r", "e", "p", "o", "s", "i", "t", "o", "r", "y",
      "C", "f", "g", ".", "y", "a", "m", "l">>

DigitChar(n) == <<"0", "1", "2", "3", "4", "5", "6", "7", "8", "9">>[n + 1]

\* p + '[n]': the path p with an HDU indicator
HduPath(p, n) == p \o <<"[", DigitChar(n), "]">>

f == <<"f">>

f1 == <<"f", "1">>

\* the keys objects are stored under: 'f', the literal key 'f[1]' (of which
\* 'f' is a proper prefix) and the canonical configuration key
Keys == {f, HduPath(f, 1), remoteCfgName}

(***************************************************************************)
(* Python values.                                                          *)
(***************************************************************************)
None == [cls |-> "NoneType"]

Bool(v) == [cls |-> "bool", val |-> v]

List(items) == [cls |-> "list", items |-> items]

\* tests/test_basics.py: MyTestObject(val), equal when the vals are equal
MyTestObject(v) == [cls |-> "MyTestObject", val |-> v]

\* a mapper class, as held by RepositoryCfg.mapper
Mapper(m) == [cls |-> "type", id |-> m]

\* a Python str
Str(s) == [cls |-> "str", val |-> s]

\* an S3Storage instance: self.bucketName (self.bucket is the handle of that bucket)
Instance(bucketName) == [cls |-> "S3Storage", bucketName |-> bucketName]

\* dafPersist.RepositoryCfg: the fields this package reads are root and mapper
RepositoryCfg(root, mapper) == [cls |-> "RepositoryCfg", root |-> root, mapper |-> mapper]

\* a value of a class for which no formatter is registered
Unregistered(v) == [cls |-> "int", val |-> v]

type(obj) == obj.cls

(***************************************************************************)
(* The object store behind boto3: store[b].exists says whether bucket b    *)
(* exists and store[b].objects[k] is the body stored under key k.          *)
(***************************************************************************)
NoObject == [codec |-> "none"]


NoBucket == [exists |-> FALSE, objects |-> [k \in Keys |-> NoObject]]

EmptyStore == [b \in BucketNames |-> NoBucket]

KeysIn(st, b) == {k \in Keys : st[b].objects[k] # NoObject}

\* the result of an operation: the exception raised ("none" if it returned),
\* the value returned, the store afterwards and the requests sent to the store
Result(exc, ret, st, calls) == [exc |-> exc, ret |-> ret, store |-> st, calls |-> calls]

\* botocore's validate_bucket_name: ^[a-zA-Z0-9.\-_]{1,255}$
VALID_BUCKET(name) ==
    /\ Len(name) \in 1..255
    /\ \A i \in 1..Len(name) : name[i] \in Letters \cup Digits \cup {".", "-", "_"}

\* client.head_bucket(Bucket=name); up = the store can be reached
head_bucket(st, name, up) ==
    IF ~VALID_BUCKET(name) THEN Result("ParamValidationError", None, st, <<>>)
    ELSE IF ~up THEN Result("EndpointConnectionError", None, st, <<"HeadBucket">>)
    ELSE IF name \in BucketNames /\ st[name].exists
         THEN Result("none", None, st, <<"HeadBucket">>)
         ELSE Result("ClientError", None, st, <<"HeadBucket">>)

\* s3.create_bucket(Bucket=name), in the default region: creating a bucket
\* the caller already owns succeeds and leaves its objects alone
create_bucket(st, name, up) ==
    IF ~VALID_BUCKET(name) \/ name \notin BucketNames
    THEN Result("ParamValidationError", None, st, <<>>)
    ELSE IF ~up THEN Result("EndpointConnectionError", None, st, <<"CreateBucket">>)
    ELSE Result("none", None,
                [st EXCEPT ![name] = [exists |-> TRUE, objects |-> st[name].objects]],
                <<"CreateBucket">>)

\* mutant: the put is conditional, an existing object is not replaced
put_object_ifAbsent(st, b, key, body, up) ==
    IF ~up THEN Result("EndpointConnectionError", None, st, <<"PutObject">>)
    ELSE IF ~st[b].exists \/ key \in KeysIn(st, b)
         THEN Result("ClientError", None, st, <<"PutObject">>)
         ELSE Result("none", None, [st EXCEPT ![b].objects[key] = body], <<"PutObject">>)

\* bucket.put_object(Key=key, Body=body)
put_object(st, b, key, body, up) ==
    IF ~up THEN Result("EndpointConnectionError", None, st, <<"PutObject">>)
    ELSE IF ~st[b].exists THEN Result("ClientError", None, st, <<"PutObject">>)
    ELSE Result("none", None, [st EXCEPT ![b].objects[key] = body], <<"PutObject">>)

\* bucket.download_file(key, filename): ret is the body downloaded
download_file(st, b, key, up) ==
    IF ~up THEN Result("EndpointConnectionError", None, st, <<"HeadObject">>)
    ELSE IF ~st[b].exists \/ key \notin KeysIn(st, b)
         THEN Result("ClientError", None, st, <<"HeadObject">>)
         ELSE Result("none", st[b].objects[key], st, <<"HeadObject", "GetObject">>)

\* bucket.copy({'Bucket': src, 'Key': fromKey}, toKey); the store refuses to
\* copy an object onto itself
copy(st, b, src, fromKey, toKey, up) ==
    IF ~up THEN Result("EndpointConnectionError", None, st, <<"HeadObject">>)
    ELSE IF ~st[src].exists \/ fromKey \notin KeysIn(st, src) \/ ~st[b].exists
         THEN Result("ClientError", None, st, <<"HeadObject">>)
    ELSE IF src = b /\ fromKey = toKey
         THEN Result("ClientError", None, st, <<"HeadObject", "CopyObject">>)
         ELSE Result("none", None,
                     [st EXCEPT ![b].objects[toKey] = st[src].objects[fromKey]],
                     <<"HeadObject", "CopyObject">>)

\* list(bucket.objects.filter(Prefix=prefix)): ret is the set of keys listed
objects_filter(st, b, prefix, up) ==
    IF ~up THEN Result("EndpointConnectionError", None, st, <<"ListObjects">>)
    ELSE IF ~st[b].exists THEN Result("ClientError", None, st, <<"ListObjects">>)
    ELSE Result("none", {k \in KeysIn(st, b) : startswith(k, prefix)}, st,
                <<"ListObjects">>)

(***************************************************************************)
(* ButlerLocation and the codecs of the formatters.                        *)
(***************************************************************************)
\* dafPersist.ButlerLocation(pythonType=..., locationList=...); pythonType is
\* the class name, "None" when the location is built with pythonType=None
ButlerLocation(pythonType, locationList) ==
    [pythonType |-> pythonType, locationList |-> locationList]

getLocations(butlerLocation) == butlerLocation.locationList

getPythonType(butlerLocation) == butlerLocation.pythonType

\* yaml.dump(obj, f) and yaml.load(j): the text read back is the text dumped;
\* a body that is no yaml document makes the load raise
yaml_dump(obj) == [codec |-> "yaml", obj |-> obj]

yaml_load(body) ==
    IF body.codec = "yaml" THEN [exc |-> "none", obj |-> body.obj]
    ELSE [exc |-> "YAMLError", obj |-> None]

\* pickle.dump(obj, f) and pickle.load(f)
pickle_dump(obj) == [codec |-> "pickle", obj |-> obj]

pickle_load(body) ==
    IF body.codec = "pickle" THEN [exc |-> "none", obj |-> body.obj]
    ELSE [exc |-> "UnpicklingError", obj |-> None]

(***************************************************************************)
(* The formatters.                                                         *)
(***************************************************************************)
\* mutant: the configuration is stored under the location's own key
writeRepositoryCfg_atLocation(st, bucket, butlerLocation, obj, up) ==
    put_object(st, bucket,
               IF getLocations(butlerLocation) = <<>> THEN remoteCfgName
               ELSE getLocations(butlerLocation)[1],
               yaml_dump(obj), up)

\* fmtRepositoryCfg.writeRepositoryCfg(bucket, butlerLocation, obj)
writeRepositoryCfg(st, bucket, butlerLocation, obj, up) ==
    put_object(st, bucket, remoteCfgName, yaml_dump(obj), up)

\* mutant: every exception of the download is taken for a missing object
readRepositoryCfg_exceptAll(st, bucket, butlerLocation, up) ==
    LET loaded(d, cfg) ==
            IF cfg.exc # "none" THEN Result(cfg.exc, None, st, d.calls)
            ELSE Result("none", cfg.obj, st, d.calls)
        downloaded(d) ==
            IF d.exc # "none" THEN Result("none", None, st, d.calls)
            ELSE loaded(d, yaml_load(d.ret))
    IN downloaded(download_file(st, bucket, remoteCfgName, up))

\* fmtRepositoryCfg.readRepositoryCfg(bucket, butlerLocation)
readRepositoryCfg(st, bucket, butlerLocation, up) ==
    LET loaded(d, cfg) ==
            IF cfg.exc # "none" THEN Result(cfg.exc, None, st, d.calls)
            ELSE Result("none", cfg.obj, st, d.calls)
        downloaded(d) ==
            IF d.exc = "ClientError" THEN Result("none", None, st, d.calls)
            ELSE IF d.exc # "none" THEN Result(d.exc, None, st, d.calls)
            ELSE loaded(d, yaml_load(d.ret))
    IN downloaded(download_file(st, bucket, remoteCfgName, up))

\* tests/test_basics.py writeMyTestObject(bucket, butlerLocation, obj)
writeMyTestObject(st, bucket, butlerLocation, obj, up) ==
    IF getLocations(butlerLocation) = <<>> THEN Result("IndexError", None, st, <<>>)
    ELSE put_object(st, bucket, getLocations(butlerLocation)[1], pickle_dump(obj), up)

\* tests/test_basics.py readMyTestObject(bucket, butlerLocation)
readMyTestObject(st, bucket, butlerLocation, up) ==
    LET loaded(d, obj) ==
            IF obj.exc # "none" THEN Result(obj.exc, None, st, d.calls)
            ELSE Result("none", List(<<obj.obj>>), st, d.calls)
        downloaded(d) ==
            IF d.exc = "ClientError" THEN Result("none", None, st, d.calls)
            ELSE IF d.exc # "none" THEN Result(d.exc, None, st, d.calls)
            ELSE loaded(d, pickle_load(d.ret))
    IN IF getLocations(butlerLocation) = <<>> THEN Result("IndexError", None, st, <<>>)
       ELSE downloaded(download_file(st, bucket, getLocations(butlerLocation)[1], up))

\* the registry after  S3Storage.registerFormatters(dafPersist.RepositoryCfg, ...)
\* and  S3Storage.registerFormatters(MyTestObject, ...): the formatter's name,
\* "None" when the class has none
getWriteFormatter(objType) ==
    IF objType = "RepositoryCfg" THEN "writeRepositoryCfg"
    ELSE IF objType = "MyTestObject" THEN "writeMyTestObject"
    ELSE "None"

getReadFormatter(objType) ==
    IF objType = "RepositoryCfg" THEN "readRepositoryCfg"
    ELSE IF objType = "MyTestObject" THEN "readMyTestObject"
    ELSE "None"

(***************************************************************************)
(* S3Storage.                                                              *)
(***************************************************************************)
NoWriteFormatter == "RuntimeError: No write formatter registered"

NoReadFormatter == "RuntimeError: No read formatter registered"

UnsupportedScheme == "RuntimeError: S3Storage does not support scheme"

NoStorageRegistered == "RuntimeError: No storage registered for scheme"

NoRepositroyAtRoot == "NoRepositroyAtRoot"

\* S3Storage._bucketExists(uri)
_bucketExists(st, uri, up) ==
    LET answered(h) ==
            IF h.exc = "none" THEN Result("none", Bool(TRUE), st, h.calls)
            ELSE IF h.exc = "ParamValidationError"
                 THEN Result("none", Bool(FALSE), st, h.calls)
                 ELSE Result(h.exc, None, st, h.calls)
    IN answered(head_bucket(st, uri, up))

\* mutant: the bucket name is taken from the netloc alone
bucketNameOf_netlocOnly(parseRes) == lstrip(parseRes.netloc, "/")

\* self.bucketName = (parseRes.netloc or parseRes.path).lstrip('/')
bucketNameOf(parseRes) ==
    lstrip(IF parseRes.netloc # <<>> THEN parseRes.netloc ELSE parseRes.path, "/")

\* S3Storage.__init__(uri, create): ret is the new instance
S3Storage(st, uri, create, up) ==
    LET created(bucketName, e, c) ==
            IF c.exc # "none" THEN Result(c.exc, None, st, e.calls \o c.calls)
            ELSE Result("none", Instance(bucketName), c.store, e.calls \o c.calls)
        checked(bucketName, e) ==
            IF e.exc # "none" THEN Result(e.exc, None, st, e.calls)
            ELSE IF e.ret = Bool(FALSE)
                 THEN IF create
                      THEN created(bucketName, e, create_bucket(st, bucketName, up))
                      ELSE Result(NoRepositroyAtRoot, None, st, e.calls)
                 ELSE Result("none", Instance(bucketName), st, e.calls)
        init(parseRes) ==
            IF upper(parseRes.scheme) # <<"S", "3">>
            THEN Result(UnsupportedScheme, None, st, <<>>)
            ELSE checked(bucketNameOf(parseRes), _bucketExists(st, uri, up))
    IN init(urlparse(uri))

\* mutant: a value without a write formatter is written with the pickle formatter
write_defaulted(st, bucket, butlerLocation, obj, up) ==
    IF getWriteFormatter(type(obj)) = "writeRepositoryCfg"
    THEN writeRepositoryCfg(st, bucket, butlerLocation, obj, up)
    ELSE writeMyTestObject(st, bucket, butlerLocation, obj, up)

\* S3Storage.write(butlerLocation, obj) on the instance bound to bucket
write(st, bucket, butlerLocation, obj, up) ==
    LET writeFormatter == getWriteFormatter(type(obj))
    IN IF writeFormatter = "None" THEN Result(NoWriteFormatter, None, st, <<>>)
       ELSE IF writeFormatter = "writeRepositoryCfg"
            THEN writeRepositoryCfg(st, bucket, butlerLocation, obj, up)
            ELSE writeMyTestObject(st, bucket, butlerLocation, obj, up)

\* S3Storage.read(butlerLocation)
read(st, bucket, butlerLocation, up) ==
    LET readFormatter == getReadFormatter(getPythonType(butlerLocation))
    IN IF readFormatter = "None" THEN Result(NoReadFormatter, None, st, <<>>)
       ELSE IF readFormatter = "readRepositoryCfg"
            THEN readRepositoryCfg(st, bucket, butlerLocation, up)
            ELSE readMyTestObject(st, bucket, butlerLocation, up)

\* mutant: any key the prefix listing returns counts as the object
exists_anyListed(st, bucket, location, up) ==
    LET compared(objectName, bucketObjects) ==
            IF bucketObjects.exc # "none"
            THEN Result(bucketObjects.exc, None, st, bucketObjects.calls)
            ELSE Result("none", Bool(bucketObjects.ret # {}), st, bucketObjects.calls)
        listed(objectName) == compared(objectName, objects_filter(st, bucket, objectName, up))
    IN IF getLocations(location) = <<>> THEN Result("IndexError", None, st, <<>>)
       ELSE listed(getLocations(location)[1])

\* S3Storage.exists(location)
exists(st, bucket, location, up) ==
    LET compared(objectName, bucketObjects) ==
            IF bucketObjects.exc # "none"
            THEN Result(bucketObjects.exc, None, st, bucketObjects.calls)
            ELSE Result("none", Bool(\E key \in bucketObjects.ret : objectName = key),
                        st, bucketObjects.calls)
        listed(objectName) == compared(objectName, objects_filter(st, bucket, objectName, up))
    IN IF getLocations(location) = <<>> THEN Result("IndexError", None, st, <<>>)
       ELSE listed(getLocations(location)[1])

\* mutant: the HDU indicator is left on the path
strippedPath_kept(path) == path

\* the path instanceSearch looks for: strippedPath
strippedPath(path) ==
    IF endswith(path, "]") THEN SliceTo(path, rfind(path, "[")) ELSE path

\* S3Storage.instanceSearch(path)
instanceSearch(st, bucket, path, up) ==
    exists(st, bucket, ButlerLocation("None", <<strippedPath(path)>>), up)

\* mutant: source and destination are exchanged
copyFile_reversed(st, bucket, fromLocation, toLocation, up) ==
    copy(st, bucket, bucket, toLocation, fromLocation, up)

\* S3Storage.copyFile(fromLocation, toLocation)
copyFile(st, bucket, fromLocation, toLocation, up) ==
    copy(st, bucket, bucket, fromLocation, toLocation, up)

\* dafPersist.Storage.makeFromURI(uri, create=True) with the two
\* registerStorageClass calls of s3Storage.py: 's3' and 'S3' map to S3Storage
makeFromURI(st, uri, create, up) ==
    IF urlparse(uri).scheme \in {<<"s", "3">>, <<"S", "3">>}
    THEN S3Storage(st, uri, create, up)
    ELSE Result(NoStorageRegistered, None, st, <<>>)

\* mutant: the storage is opened without creating the bucket
getRepositoryCfg_noCreate(st, uri, up) ==
    LET done(s, r) == Result(r.exc, r.ret, r.store, s.calls \o r.calls)
        made(s) ==
            IF s.exc # "none" THEN s
            ELSE done(s, read(s.store, s.ret.bucketName,
                              ButlerLocation("RepositoryCfg", <<>>), up))
    IN made(makeFromURI(st, uri, FALSE, up))

\* S3Storage.getRepositoryCfg(uri)
getRepositoryCfg(st, uri, up) ==
    LET done(s, r) == Result(r.exc, r.ret, r.store, s.calls \o r.calls)
        made(s) ==
            IF s.exc # "none" THEN s
            ELSE done(s, read(s.store, s.ret.bucketName,
                              ButlerLocation("RepositoryCfg", <<>>), up))
    IN made(makeFromURI(st, uri, TRUE, up))

\* mutant: the configuration always goes to the root it records
putRepositoryCfg_atRoot(st, cfg, loc, up) ==
    LET done(s, w) == Result(w.exc, None, w.store, s.calls \o w.calls)
        made(s) ==
            IF s.exc # "none" THEN s
            ELSE done(s, write(s.store, s.ret.bucketName,
                               ButlerLocation("RepositoryCfg", <<>>), cfg, up))
    IN made(makeFromURI(st, cfg.root, TRUE, up))

\* S3Storage.putRepositoryCfg(cfg, loc); loc = None when it is not given
putRepositoryCfg(st, cfg, loc, up) ==
    LET done(s, w) == Result(w.exc, None, w.store, s.calls \o w.calls)
        made(s) ==
            IF s.exc # "none" THEN s
            ELSE done(s, write(s.store, s.ret.bucketName,
                               ButlerLocation("RepositoryCfg", <<>>), cfg, up))
    IN made(makeFromURI(st, IF loc = None THEN cfg.root ELSE loc.val, TRUE, up))

\* mutant: a root without configuration answers None instead of raising
getMapperClass_noRaise(st, root, up) ==
    LET got(cfg) ==
            IF cfg.exc # "none" THEN cfg
            ELSE IF cfg.ret = None THEN Result("none", None, cfg.store, cfg.calls)
            ELSE Result("none", cfg.ret.mapper, cfg.store, cfg.calls)
    IN got(getRepositoryCfg(st, root, up))

\* S3Storage.getMapperClass(root)
getMapperClass(st, root, up) ==
    LET got(cfg) ==
            IF cfg.exc # "none" THEN cfg
            ELSE IF cfg.ret = None THEN Result(NoRepositroyAtRoot, None, cfg.store, cfg.calls)
            ELSE Result("none", cfg.ret.mapper, cfg.store, cfg.calls)
    IN got(getRepositoryCfg(st, root, up))

(***************************************************************************)
(* The state machine.  store is the object store, storage the S3Storage    *)
(* instance the caller holds (Uninitialized -> Bound | Failed), and last    *)
(* the call made last: its name, arguments, exception, return value and    *)
(* the requests it sent to the store.  writer[w] is the position of the    *)
(* concurrent caller w inside its write or putRepositoryCfg call, with the  *)
(* bucket, key and encoded body of the put_object it is heading for, and    *)
(* completed lists the callers in the order their put_object returned.      *)
(***************************************************************************)
Uninitialized == [state |-> "Uninitialized", bucketName |-> <<>>]

Failed == [state |-> "Failed", bucketName |-> <<>>]

Bound(bucketName) == [state |-> "Bound", bucketName |-> bucketName]

Call(op, args, r) ==
    [op |-> op, args |-> args, exc |-> r.exc, ret |-> r.ret, calls |-> r.calls]

NoCall == [op |-> "none", args |-> <<>>, exc |-> "none", ret |-> None, calls |-> <<>>]

\* storage = S3Storage(uri, create)
Construct(uri, create, up) ==
    \E r \in {S3Storage(store, uri, create, up)} :
       /\ store' = r.store
       /\ storage' = IF r.exc = "none" THEN Bound(r.ret.bucketName) ELSE Failed
       /\ last' = Call("construct", [uri |-> uri, create |-> create, up |-> up], r)
       /\ UNCHANGED <<writer, completed>>

\* storage.write(butlerLocation, obj)
Write(locationList, obj, up) ==
    /\ storage.state = "Bound"
    /\ \E r \in {write(store, storage.bucketName,
                       ButlerLocation(type(obj), locationList), obj, up)} :
          /\ store' = r.store
          /\ last' = Call("write", [locationList |-> locationList, obj |-> obj, up |-> up], r)
          /\ UNCHANGED <<storage, writer, completed>>

\* storage.read(butlerLocation)
Read(pythonType, locationList, up) ==
    /\ storage.state = "Bound"
    /\ \E r \in {read(store, storage.bucketName, ButlerLocation(pythonType, locationList), up)} :
          /\ store' = r.store
          /\ last' = Call("read", [pythonType |-> pythonType,
                                   locationList |-> locationList, up |-> up], r)
          /\ UNCHANGED <<storage, writer, completed>>

\* storage.exists(location)
Exists(locationList, up) ==
    /\ storage.state = "Bound"
    /\ \E r \in {exists(store, storage.bucketName, ButlerLocation("None", locationList), up)} :
          /\ store' = r.store
          /\ last' = Call("exists", [locationList |-> locationList, up |-> up], r)
          /\ UNCHANGED <<storage, writer, completed>>

\* storage.instanceSearch(path)
InstanceSearch(path, up) ==
    /\ storage.state = "Bound"
    /\ \E r \in {instanceSearch(store, storage.bucketName, path, up)} :
          /\ store' = r.store
          /\ last' = Call("instanceSearch", [path |-> path, up |-> up], r)
          /\ UNCHANGED <<storage, writer, completed>>

\* storage.copyFile(fromLocation, toLocation)
CopyFile(fromLocation, toLocation, up) ==
    /\ storage.state = "Bound"
    /\ \E r \in {copyFile(store, storage.bucketName, fromLocation, toLocation, up)} :
          /\ store' = r.store
          /\ last' = Call("copyFile", [fromLocation |-> fromLocation,
                                       toLocation |-> toLocation, up |-> up], r)
          /\ UNCHANGED <<storage, writer, completed>>

\* S3Storage.getRepositoryCfg(uri)
GetRepositoryCfg(uri, up) ==
    \E r \in {getRepositoryCfg(store, uri, up)} :
       /\ store' = r.store
       /\ last' = Call("getRepositoryCfg", [uri |-> uri, up |-> up], r)
       /\ UNCHANGED <<storage, writer, completed>>

\* S3Storage.putRepositoryCfg(cfg, loc)
PutRepositoryCfg(cfg, loc, up) ==
    \E r \in {putRepositoryCfg(store, cfg, loc, up)} :
       /\ store' = r.store
       /\ last' = Call("putRepositoryCfg", [cfg |-> cfg, loc |-> loc, up |-> up], r)
       /\ UNCHANGED <<storage, writer, completed>>

\* S3Storage.getMapperClass(root)
GetMapperClass(root, up) ==
    \E r \in {getMapperClass(store, root, up)} :
       /\ store' = r.store
       /\ last' = Call("getMapperClass", [root |-> root, up |-> up], r)
       /\ UNCHANGED <<storage, writer, completed>>

(***************************************************************************)
(* Concurrent callers.  Each caller w makes one call, write on the shared   *)
(* instance or putRepositoryCfg, and the calls interleave at their          *)
(* requests to the store: a call runs locally up to its next request, and   *)
(* each request (create_bucket, put_object) is one step of the store.       *)
(***************************************************************************)
Writers == 1..MaxWriters

\* where a caller stands: pc is "idle", "create" (about to send
\* create_bucket), "put" (body encoded in its own temporary file, about to
\* send put_object) or "done" (returned, or raised exc)
At(pc, op, bucket, key, body, exc) ==
    [pc |-> pc, op |-> op, bucket |-> bucket, key |-> key, body |-> body, exc |-> exc]

Idle == At("idle", "none", <<>>, <<>>, NoObject, "none")

\* S3Storage.write up to the put_object of its formatter: the formatter is
\* looked up and obj is dumped into a NamedTemporaryFile of this call
write_begin(bucket, butlerLocation, obj) ==
    LET writeFormatter == getWriteFormatter(type(obj))
    IN IF writeFormatter = "None"
       THEN At("done", "write", bucket, <<>>, NoObject, NoWriteFormatter)
       ELSE IF writeFormatter = "writeRepositoryCfg"
            THEN At("put", "write", bucket, remoteCfgName, yaml_dump(obj), "none")
            ELSE IF getLocations(butlerLocation) = <<>>
                 THEN At("done", "write", bucket, <<>>, NoObject, "IndexError")
                 ELSE At("put", "write", bucket, getLocations(butlerLocation)[1],
                         pickle_dump(obj), "none")

\* S3Storage.putRepositoryCfg up to the create_bucket of S3Storage.__init__:
\* makeFromURI(cfg.root if loc is None else loc, create=True) parses the uri
\* and asks _bucketExists
putRepositoryCfg_begin(st, cfg, loc, up) ==
    LET checked(bucketName, e) ==
            IF e.exc # "none"
            THEN At("done", "putRepositoryCfg", bucketName, <<>>, NoObject, e.exc)
            ELSE At(IF e.ret = Bool(FALSE) THEN "create" ELSE "put",
                    "putRepositoryCfg", bucketName, remoteCfgName, yaml_dump(cfg), "none")
        init(uri, parseRes) ==
            IF parseRes.scheme \notin {<<"s", "3">>, <<"S", "3">>}
            THEN At("done", "putRepositoryCfg", <<>>, <<>>, NoObject, NoStorageRegistered)
            ELSE checked(bucketNameOf(parseRes), _bucketExists(st, uri, up))
        made(uri) == init(uri, urlparse(uri))
    IN made(IF loc = None THEN cfg.root ELSE loc.val)

\* caller w enters storage.write(butlerLocation, obj)
WriteBegin(w, locationList, obj) ==
    /\ storage.state = "Bound"
    /\ writer[w].pc = "idle"
    /\ writer' = [writer EXCEPT ![w] =
                    write_begin(storage.bucketName,
                                ButlerLocation(type(obj), locationList), obj)]
    /\ UNCHANGED <<store, storage, last, completed>>

\* caller w enters S3Storage.putRepositoryCfg(cfg, loc)
PutRepositoryCfgBegin(w, cfg, loc, up) ==
    /\ writer[w].pc = "idle"
    /\ writer' = [writer EXCEPT ![w] = putRepositoryCfg_begin(store, cfg, loc, up)]
    /\ UNCHANGED <<store, storage, last, completed>>

\* caller w sends the create_bucket of S3Storage.__init__
CreateBucket(w, up) ==
    /\ writer[w].pc = "create"
    /\ \E r \in {create_bucket(store, writer[w].bucket, up)} :
          /\ store' = r.store
          /\ writer' = [writer EXCEPT ![w] =
                          IF r.exc # "none"
                          THEN At("done", writer[w].op, writer[w].bucket, <<>>,
                                  NoObject, r.exc)
                          ELSE [writer[w] EXCEPT !.pc = "put"]]
    /\ UNCHANGED <<storage, last, completed>>

\* caller w sends the put_object of its formatter, and its call returns
PutObject(w, up) ==
    /\ writer[w].pc = "put"
    /\ \E r \in {put_object(store, writer[w].bucket, writer[w].key, writer[w].body, up)} :
          /\ store' = r.store
          /\ writer' = [writer EXCEPT ![w] = [writer[w] EXCEPT !.pc = "done", !.exc = r.exc]]
          /\ completed' = IF r.exc = "none" THEN Append(completed, w) ELSE completed
    /\ UNCHANGED <<storage, last>>

(***************************************************************************)
(* Inputs.                                                                 *)
(***************************************************************************)
Vals == 1..MaxVal

\* the roots a RepositoryCfg records
CfgRoots == {TwoSlashes(s3, b) : b \in BucketNames}

\* the loc handed to putRepositoryCfg: not given, or a uri
Locs == {None} \cup {Str(TwoSlashes(s3, b)) : b \in BucketNames}
                \cup {Str(ThreeSlashes(s3, b)) : b \in BucketNames}

Cfgs == {RepositoryCfg(root, Mapper(m)) : root \in CfgRoots, m \in Vals}

\* the uri the data repository is opened with
dataRoot == TwoSlashes(s3, <<"b">>)

\* the objects handed to write: of the two registered classes and of one that
\* has no formatter
Objects ==
    {MyTestObject(v) : v \in Vals}
      \cup {RepositoryCfg(dataRoot, Mapper(m)) : m \in Vals}
      \cup {Unregistered(1)}

PythonTypes == {"MyTestObject", "RepositoryCfg", "int"}

\* locationList of a ButlerLocation: one key, or none (locationList=None)
LocationLists == {<<k>> : k \in Keys} \cup {<<>>}

\* the names exists is asked about: the keys and 'f1', which is never stored
ObjectNames == Keys \cup {f1}

\* the paths handed to instanceSearch: the keys, each key with an HDU
\* indicator, and paths that end with ']' without a well-formed indicator
SearchPaths ==
    {f, HduPath(f, 1), HduPath(f, 2), HduPath(f1, 1), HduPath(HduPath(f, 1), 1),
     HduPath(remoteCfgName, 1), <<"f", "]">>, <<"]">>, <<"f", "[", "f", "]">>}

\* what the concurrent callers write: the object named f or the
\* configuration, and a cfg put at its own root or at the data root
WriterLocationLists == {<<f>>, <<>>}

WriterLocs == {None, Str(dataRoot)}

(***************************************************************************)
(* The repository-level machine: construction and the RepositoryCfg calls  *)
(* against a store that starts with no bucket.                             *)
(***************************************************************************)
Init ==
    /\ store = EmptyStore
    /\ storage = Uninitialized
    /\ last = NoCall
    /\ writer = [w \in Writers |-> Idle]
    /\ completed = <<>>

NextRepo ==
    \/ \E uri \in URIs, create \in BOOLEAN, up \in BOOLEAN : Construct(uri, create, up)
    \/ \E uri \in URIs, up \in BOOLEAN : GetRepositoryCfg(uri, up)
    \/ \E cfg \in Cfgs, loc \in Locs, up \in BOOLEAN : PutRepositoryCfg(cfg, loc, up)
    \/ \E root \in URIs, up \in BOOLEAN : GetMapperClass(root, up)

SpecRepo == Init /\ [][NextRepo]_vars

(***************************************************************************)
(* The data-level machine: the calls on one instance, starting right after *)
(* storage = S3Storage(dataRoot, create=True) on a store with no bucket.   *)
(***************************************************************************)
InitData ==
    LET after(r) ==
            /\ store = r.store
            /\ storage = Bound(r.ret.bucketName)
            /\ last = Call("construct", [uri |-> dataRoot, create |-> TRUE, up |-> TRUE], r)
            /\ writer = [w \in Writers |-> Idle]
            /\ completed = <<>>
    IN after(S3Storage(EmptyStore, dataRoot, TRUE, TRUE))

NextData ==
    \/ \E l \in LocationLists, obj \in Objects, up \in BOOLEAN : Write(l, obj, up)
    \/ \E t \in PythonTypes, l \in LocationLists, up \in BOOLEAN : Read(t, l, up)
    \/ \E name \in ObjectNames, up \in BOOLEAN : Exists(<<name>>, up)
    \/ \E path \in SearchPaths, up \in BOOLEAN : InstanceSearch(path, up)
    \/ \E k1 \in Keys, k2 \in Keys, up \in BOOLEAN : CopyFile(k1, k2, up)

SpecData == InitData /\ [][NextData]_vars

(***************************************************************************)
(* The concurrent machine: the callers of Writers, each making one write on *)
(* the instance opened on dataRoot or one putRepositoryCfg, interleaved.    *)
(***************************************************************************)
NextWriters ==
    \/ \E w \in Writers, l \in WriterLocationLists, obj \in Objects : WriteBegin(w, l, obj)
    \/ \E w \in Writers, cfg \in Cfgs, loc \in WriterLocs, up \in BOOLEAN :
          PutRepositoryCfgBegin(w, cfg, loc, up)
    \/ \E w \in Writers, up \in BOOLEAN : CreateBucket(w, up)
    \/ \E w \in Writers, up \in BOOLEAN : PutObject(w, up)

SpecWriters == InitData /\ [][NextWriters]_vars

(***************************************************************************)
(* The whole machine.                                                      *)
(***************************************************************************)
Next == NextRepo \/ NextData \/ NextWriters

Spec == Init /\ [][Next]_vars

(***************************************************************************)
(* Vocabulary of the properties.                                           *)
(***************************************************************************)
\* the bucket a uri of the model names, read off the way the uri was built
BucketOf(uri) ==
    CHOOSE b \in BucketNames :
        \E sc \in Schemes : uri \in {TwoSlashes(sc, b), ThreeSlashes(sc, b)}

\* the object-store scheme, in either case
IsS3(uri) ==
    \E sc \in {s3, <<"S", "3">>}, b \in BucketNames :
        uri \in {TwoSlashes(sc, b), ThreeSlashes(sc, b)}

\* the classes that have a registered (reader, writer) pair
Registered == {"MyTestObject", "RepositoryCfg"}

\* the key a location stands for, for a value of class cls: the canonical
\* configuration key for a RepositoryCfg, else the first key of the location
KeyOf(cls, locationList) ==
    IF cls = "RepositoryCfg" THEN remoteCfgName ELSE locationList[1]

\* whether a location names a key for class cls
HasKey(cls, locationList) == cls = "RepositoryCfg" \/ locationList # <<>>

\* the value a read hands back: the item of a one-item list, or the value itself
Returned(ret) == IF ret.cls = "list" THEN ret.items[1] ELSE ret

\* the body stored in the bound bucket under key k
Stored(st, k) == st[storage.bucketName].objects[k]

\* the call made last returned normally
Returned_ok(call, op) == call.op = op /\ call.exc = "none"

(***************************************************************************)
(* C1  Round trip.  For each class with a registered (reader, writer)      *)
(* pair, every value v and every location L: a write(L, v) that returns     *)
(* leaves v's encoding under L's key; a key's content changes only by a     *)
(* write or a copyFile that targets that key; and a read(L) of that class   *)
(* that follows the write, the store being reachable, returns a value       *)
(* equal to v.                                                              *)
(***************************************************************************)
C1_WriteStores ==
    Returned_ok(last, "write") =>
        /\ Stored(store, KeyOf(type(last.args.obj), last.args.locationList)).codec # "none"
        /\ Stored(store, KeyOf(type(last.args.obj), last.args.locationList)).obj = last.args.obj

C1_OnlyWritesChange ==
    \A k \in Keys :
        Stored(store', k) # Stored(store, k) =>
            \/ /\ Returned_ok(last', "write")
               /\ k = KeyOf(type(last'.args.obj), last'.args.locationList)
            \/ /\ Returned_ok(last', "copyFile")
               /\ k = last'.args.toLocation

C1_ReadAfterWrite ==
    ( /\ Returned_ok(last, "write")
      /\ last'.op = "read"
      /\ last'.args.up
      /\ last'.args.pythonType = type(last.args.obj)
      /\ last'.args.locationList = last.args.locationList )
    => /\ last'.exc = "none"
       /\ last'.ret # None
       /\ Returned(last'.ret) = last.args.obj

C1_RoundTrip == [](C1_WriteStores) /\ [][C1_OnlyWritesChange /\ C1_ReadAfterWrite]_vars

\* a RepositoryCfg written under a location that names another key is read back
C1_Witness ==
    /\ Returned_ok(last, "read")
    /\ last.args.pythonType = "RepositoryCfg"
    /\ last.args.locationList = <<f>>
    /\ last.ret = RepositoryCfg(dataRoot, Mapper(2))
    /\ Stored(store, f).codec = "pickle"

(***************************************************************************)
(* C2  Configuration bootstrap.  A putRepositoryCfg that returns leaves the *)
(* configuration under the canonical key of the bucket it targets (loc when *)
(* given, else cfg.root); that key changes only by such a put; and a        *)
(* getRepositoryCfg of a uri of that bucket returns the configuration       *)
(* stored there, so right after a put it returns a value equal to the cfg   *)
(* put last.                                                                *)
(***************************************************************************)
\* the bucket a putRepositoryCfg call targets
Target(call) ==
    BucketOf(IF call.args.loc = None THEN call.args.cfg.root ELSE call.args.loc.val)

C2_PutStores ==
    Returned_ok(last, "putRepositoryCfg") =>
        /\ store[Target(last)].exists
        /\ store[Target(last)].objects[remoteCfgName] = yaml_dump(last.args.cfg)

C2_GetReturnsStored ==
    Returned_ok(last, "getRepositoryCfg") =>
        last.ret = IF remoteCfgName \in KeysIn(store, BucketOf(last.args.uri))
                   THEN store[BucketOf(last.args.uri)].objects[remoteCfgName].obj
                   ELSE None

C2_OnlyPutsChange ==
    \A b \in BucketNames :
        store'[b].objects # store[b].objects =>
            Returned_ok(last', "putRepositoryCfg") /\ b = Target(last')

C2_GetAfterPut ==
    ( /\ Returned_ok(last, "putRepositoryCfg")
      /\ last'.op = "getRepositoryCfg"
      /\ last'.args.up
      /\ IsS3(last'.args.uri)
      /\ BucketOf(last'.args.uri) = Target(last) )
    => /\ last'.exc = "none"
       /\ last'.ret = last.args.cfg

C2_Bootstrap ==
    [](C2_PutStores /\ C2_GetReturnsStored) /\ [][C2_OnlyPutsChange /\ C2_GetAfterPut]_vars

\* bucket b holds a configuration that records root c and mapper 2, put there
\* through loc, and getRepositoryCfg has returned it
C2_Witness ==
    /\ Returned_ok(last, "getRepositoryCfg")
    /\ last.args.uri = ThreeSlashes(s3, <<"b">>)
    /\ last.ret = RepositoryCfg(TwoSlashes(s3, <<"c">>), Mapper(2))

(***************************************************************************)
(* C3  Existence precision.  In every reachable store, for every name,     *)
(* exists returns true exactly when the bound bucket holds an object whose *)
(* key equals the name; a stored key that only extends the name ('f[1]'     *)
(* for 'f') or that the name extends ('f' for 'f1', 'f[1]') does not count. *)
(***************************************************************************)
C3_ExistsExact ==
    /\ \A name \in ObjectNames :
          /\ exists(store, storage.bucketName, ButlerLocation("None", <<name>>), TRUE).exc = "none"
          /\ exists(store, storage.bucketName, ButlerLocation("None", <<name>>), TRUE).ret
                = Bool(name \in KeysIn(store, storage.bucketName))
    /\ Returned_ok(last, "exists") =>
          last.ret = Bool(last.args.locationList[1] \in KeysIn(store, storage.bucketName))

\* 'f[1]' is stored and 'f' is not: exists('f') has answered false
C3_Witness ==
    /\ Returned_ok(last, "exists")
    /\ last.args.locationList = <<f>>
    /\ KeysIn(store, storage.bucketName) = {HduPath(f, 1)}
    /\ last.ret = Bool(FALSE)

(***************************************************************************)
(* C4  HDU suffix stripping in search.  For every base name p and index n, *)
(* instanceSearch(p + '[n]') returns true exactly when the bound bucket    *)
(* holds an object with key p, whether or not it holds one with the        *)
(* literal key p + '[n]'.                                                  *)
(***************************************************************************)
HduBases == {f, f1, HduPath(f, 1), remoteCfgName}

C5_Step ==
    ( /\ last'.op = "construct"
      /\ last'.args.up
      /\ IsS3(last'.args.uri)
      /\ ~store[BucketOf(last'.args.uri)].exists )
    => IF last'.args.create
       THEN /\ last'.exc = "none"
            /\ storage' = Bound(BucketOf(last'.args.uri))
            /\ _bucketExists(store', last'.args.uri, TRUE).ret = Bool(TRUE)
       ELSE /\ last'.exc = NoRepositroyAtRoot
            /\ store' = store

C5_NoRepoConstruction == [][C5_Step]_vars

(***************************************************************************)
(* C6  Construction outcome.  With the store reachable, S3Storage(uri,     *)
(* create) fails exactly when the scheme of uri is not s3 (RuntimeError,    *)
(* before any request) or the bucket does not exist and create is False    *)
(* (NoRepositroyAtRoot); otherwise the instance is bound to the bucket, and *)
(* create_bucket is requested only when the bucket was absent.             *)
(***************************************************************************)
C6_Step ==
    (last'.op = "construct" /\ last'.args.up) =>
        /\ storage'.state = "Failed" <=>
              \/ ~IsS3(last'.args.uri)
              \/ ~store[BucketOf(last'.args.uri)].exists /\ ~last'.args.create
        /\ ~IsS3(last'.args.uri) =>
              last'.exc = UnsupportedScheme /\ last'.calls = <<>>
        /\ (IsS3(last'.args.uri) /\ storage'.state = "Failed") =>
              last'.exc = NoRepositroyAtRoot
        /\ storage'.state # "Failed" => storage' = Bound(BucketOf(last'.args.uri))
        /\ (\E i \in 1..Len(last'.calls) : last'.calls[i] = "CreateBucket") =>
              ~store[BucketOf(last'.args.uri)].exists

C6_ConstructionOutcome == [][C6_Step]_vars

(***************************************************************************)
(* C7  Slash-count equivalence.  For every bucket name b, 's3://b' and     *)
(* 's3:///b' (in either case of the scheme) give the bucket name b, and an  *)
(* instance constructed from either is bound to b.                         *)
(***************************************************************************)
C7_SlashCount ==
    /\ \A b \in BucketNames, sc \in {s3, <<"S", "3">>} :
          /\ bucketNameOf(urlparse(TwoSlashes(sc, b))) = b
          /\ bucketNameOf(urlparse(ThreeSlashes(sc, b))) = b
    /\ (last.op = "construct" /\ last.args.up /\ last.args.create /\ IsS3(last.args.uri)) =>
          /\ last.exc = "none"
          /\ storage = Bound(BucketOf(last.args.uri))
          /\ store[BucketOf(last.args.uri)].exists

\* an instance constructed from 's3:///c' is bound to bucket c
C7_Witness ==
    /\ Returned_ok(last, "construct")
    /\ last.args.uri = ThreeSlashes(s3, <<"c">>)
    /\ storage = Bound(<<"c">>)
    /\ store[<<"c">>].exists

(***************************************************************************)
(* C8  Copy independence.  A copyFile(A, A_copy) that returns leaves under *)
(* A_copy the body that was under A and changes no other key, A included;  *)
(* a read at A_copy that follows it returns the value stored at A; and a    *)
(* write changes no key but the one it targets, so a later write to A      *)
(* leaves the object at A_copy as it was.                                   *)
(***************************************************************************)
C8_CopyStep ==
    Returned_ok(last', "copyFile") =>
        /\ Stored(store, last'.args.fromLocation) # NoObject
        /\ Stored(store', last'.args.toLocation) = Stored(store, last'.args.fromLocation)
        /\ \A k \in Keys \ {last'.args.toLocation} : Stored(store', k) = Stored(store, k)

C8_WriteFrame ==
    last'.op = "write" =>
        \A k \in Keys :
            Stored(store', k) # Stored(store, k) =>
                /\ last'.exc = "none"
                /\ k = KeyOf(type(last'.args.obj), last'.args.locationList)

C8_ReadCopy ==
    ( /\ Returned_ok(last, "copyFile")
      /\ last'.op = "read"
      /\ last'.args.up
      /\ last'.args.locationList = <<last.args.toLocation>>
      /\ last'.args.pythonType = "MyTestObject"
      /\ Stored(store, last.args.fromLocation).codec = "pickle" )
    => /\ last'.exc = "none"
       /\ last'.ret = List(<<Stored(store, last.args.fromLocation).obj>>)

C8_CopyIndependence == [][C8_CopyStep /\ C8_WriteFrame /\ C8_ReadCopy]_vars

\* 'f', holding MyTestObject(2), has been copied over 'f[1]'
C8_Witness ==
    /\ Returned_ok(last, "copyFile")
    /\ last.args.fromLocation = f
    /\ last.args.toLocation = HduPath(f, 1)
    /\ Stored(store, f) = pickle_dump(MyTestObject(2))
    /\ Stored(store, HduPath(f, 1)) = pickle_dump(MyTestObject(2))

(***************************************************************************)
(* C9  Unsupported type.  A write of a value whose class has no writer and *)
(* a read at a location whose declared class has no reader raise the       *)
(* RuntimeError 'No ... formatter registered', send no request to the      *)
(* object store and leave the store as it was.                             *)
(***************************************************************************)
C9_Raises ==
    /\ (last.op = "write" /\ type(last.args.obj) \notin Registered) =>
          last.exc = NoWriteFormatter /\ last.calls = <<>>
    /\ (last.op = "read" /\ last.args.pythonType \notin Registered) =>
          last.exc = NoReadFormatter /\ last.calls = <<>>

C9_StoreUnchanged ==
    ( \/ last'.op = "write" /\ type(last'.args.obj) \notin Registered
      \/ last'.op = "read" /\ last'.args.pythonType \notin Registered )
    => store' = store

C9_UnsupportedType == [](C9_Raises) /\ [][C9_StoreUnchanged]_vars

\* a write of an unregistered value was attempted while the store was reachable
C9_Witness ==
    /\ last.op = "write"
    /\ last.args.obj = Unregistered(1)
    /\ last.args.locationList = <<f>>
    /\ last.args.up
    /\ last.exc = NoWriteFormatter
    /\ f \notin KeysIn(store, storage.bucketName)

C11_FailsWhenAbsent ==
    last'.op = "getMapperClass" =>
        /\ last'.exc = NoRepositroyAtRoot
             <=> /\ getRepositoryCfg(store, last'.args.root, last'.args.up).exc = "none"
                 /\ getRepositoryCfg(store, last'.args.root, last'.args.up).ret = None
        /\ IsS3(last'.args.root) /\ last'.args.up =>
             (last'.exc = NoRepositroyAtRoot
                <=> store[BucketOf(last'.args.root)].objects[remoteCfgName] = NoObject)

C11_ReturnsMapper ==
    /\ last'.op = "getMapperClass"
    /\ getRepositoryCfg(store, last'.args.root, last'.args.up).exc = "none"
    /\ getRepositoryCfg(store, last'.args.root, last'.args.up).ret # None
    => /\ last'.exc = "none"
       /\ last'.ret = store[BucketOf(last'.args.root)].objects[remoteCfgName].obj.mapper

C11_AfterPut ==
    /\ Returned_ok(last, "putRepositoryCfg")
    /\ last'.op = "getMapperClass"
    /\ IsS3(last'.args.root) /\ last'.args.up
    /\ BucketOf(last'.args.root) = Target(last)
    => /\ last'.exc = "none"
       /\ last'.ret = last.args.cfg.mapper

C11_GetMapperClass ==
    [][C11_FailsWhenAbsent /\ C11_ReturnsMapper /\ C11_AfterPut]_vars

\* getMapperClass returned the mapper of the cfg put last to bucket c, and a
\* bucket without configuration exists beside it
C11_Witness ==
    /\ last.op = "getMapperClass"
    /\ last.exc = "none"
    /\ last.ret = Mapper(2)
    /\ BucketOf(last.args.root) = <<"c">>
    /\ store[<<"c">>].objects[remoteCfgName] = yaml_dump(RepositoryCfg(TwoSlashes(s3, <<"b">>), Mapper(2)))
    /\ store[<<"b">>].exists
    /\ store[<<"b">>].objects[remoteCfgName] = NoObject

(***************************************************************************)
(* C12  HDU stripping as a function.  For every path, the key that          *)
(* instanceSearch tests for existence is the path unchanged when the path   *)
(* does not end with ']'; when it ends with ']' it is the path without its  *)
(* trailing bracketed numeric suffix '[digits]', and nothing else is        *)
(* removed: a path that ends with ']' without a '[' before it, or with a    *)
(* bracket content that is not numeric, keeps all its characters.  So       *)
(* instanceSearch(path) answers whether that key is stored.                 *)
(***************************************************************************)
\* the path ends with '[' digits ']', at least one digit
HasHduSuffix(path) ==
    /\ endswith(path, "]")
    /\ rfind(path, "[") >= 0
    /\ rfind(path, "[") + 2 < Len(path)
    /\ \A i \in (rfind(path, "[") + 2)..(Len(path) - 1) :
          path[i] \in {DigitChar(n) : n \in 0..9}

\* stripHduSuffix of the specification
stripHduSuffix(path) ==
    IF HasHduSuffix(path) THEN SliceTo(path, rfind(path, "[")) ELSE path

C12_HduStripping ==
    last.op = "instanceSearch" /\ last.exc = "none" =>
        /\ strippedPath(last.args.path) = stripHduSuffix(last.args.path)
        /\ last.ret = Bool(stripHduSuffix(last.args.path) \in KeysIn(store, storage.bucketName))

(***************************************************************************)
(* C13  Last writer wins.  In every interleaving of the callers' writes and *)
(* putRepositoryCfgs: a put_object that reaches the store replaces the      *)
(* object under its key whatever was there and its caller gets no error (a  *)
(* caller fails only when the store cannot be reached, and then nothing     *)
(* changes); no step other than a put changes an object; and at all times,  *)
(* so also once every caller has returned, the object under each key is     *)
(* the whole body of the put that completed last on that key, or no object  *)
(* when no put completed on it.                                             *)
(***************************************************************************)
\* the positions in completed of the puts on key k of bucket b
PutsOn(b, k) ==
    {i \in 1..Len(completed) :
        writer[completed[i]].bucket = b /\ writer[completed[i]].key = k}

C13_LastCompletedStored ==
    \A b \in BucketNames, k \in Keys :
        IF PutsOn(b, k) = {}
        THEN store[b].objects[k] = NoObject
        ELSE store[b].objects[k] =
                writer[completed[CHOOSE i \in PutsOn(b, k) :
                                    \A j \in PutsOn(b, k) : j <= i]].body

C13_PutReplaces ==
    \A w \in Writers :
        writer[w].pc = "put" /\ writer'[w].pc = "done" =>
            /\ writer'[w].exc \in {"none", "EndpointConnectionError"}
            /\ writer'[w].exc = "none" =>
                 /\ store' = [store EXCEPT ![writer[w].bucket].objects[writer[w].key] =
                                              writer[w].body]
                 /\ completed' = Append(completed, w)
            /\ writer'[w].exc # "none" => store' = store /\ completed' = completed

C13_OthersKeep ==
    (\A w \in Writers : ~(writer[w].pc = "put" /\ writer'[w].pc = "done")) =>
        \A b \in BucketNames : store'[b].objects = store[b].objects

C13_LastWriterWins ==
    [](C13_LastCompletedStored) /\ [][C13_PutReplaces /\ C13_OthersKeep]_vars

\* a write of a RepositoryCfg through the instance and a putRepositoryCfg
\* raced on the canonical key of bucket b; the putRepositoryCfg completed
\* first, the write last, and the write's body is what is stored
C13_Witness ==
    /\ \A w \in Writers : writer[w].pc = "done"
    /\ Len(completed) >= 2
    /\ writer[completed[Len(completed)]].op = "write"
    /\ writer[completed[Len(completed) - 1]].op = "putRepositoryCfg"
    /\ writer[completed[Len(completed)]].bucket = <<"b">>
    /\ writer[completed[Len(completed) - 1]].bucket = <<"b">>
    /\ writer[completed[Len(completed)]].key = remoteCfgName
    /\ writer[completed[Len(completed)]].body # writer[completed[Len(completed) - 1]].body
    /\ store[<<"b">>].objects[remoteCfgName] = writer[completed[Len(completed)]].body

(***************************************************************************)
(* C14  Target of putRepositoryCfg.  A putRepositoryCfg(cfg, loc) that      *)
(* returns has written cfg's encoding under the canonical configuration     *)
(* key of the bucket named by loc when loc is given, and of the bucket      *)
(* named by cfg.root otherwise; that bucket exists afterwards, created if   *)
(* it was absent, and none of its other keys is changed; every other        *)
(* bucket, so also the bucket of cfg.root when loc names a different one,   *)
(* is neither created nor modified.  A putRepositoryCfg that raises writes  *)
(* no object and touches no bucket but its target.                          *)
(***************************************************************************)
C14_WritesTarget ==
    Returned_ok(last', "putRepositoryCfg") =>
        /\ store'[Target(last')].exists
        /\ store'[Target(last')].objects =
              [store[Target(last')].objects EXCEPT ![remoteCfgName] = yaml_dump(last'.args.cfg)]

C14_OthersUntouched ==
    last'.op = "putRepositoryCfg" =>
        /\ \A b \in BucketNames \ {Target(last')} : store'[b] = store[b]
        /\ last'.exc # "none" => \A b \in BucketNames : store'[b].objects = store[b].objects

C14_PutTarget == [][C14_WritesTarget /\ C14_OthersUntouched]_vars

\* a cfg that records root s3://b was put with loc = s3://c: bucket c was
\* created and holds it, bucket b does not exist
C14_Witness ==
    /\ Returned_ok(last, "putRepositoryCfg")
    /\ last.args.loc # None
    /\ BucketOf(last.args.cfg.root) = <<"b">>
    /\ Target(last) = <<"c">>
    /\ store[<<"c">>].exists
    /\ store[<<"c">>].objects[remoteCfgName] = yaml_dump(last.args.cfg)
    /\ ~store[<<"b">>].exists

====
